---- MODULE Spec2Model ----
(***************************************************************************)
(* A model of clustergram.Clustergram (src/clustergram/clustergram.py):    *)
(* the sweep result object (k_range, labels, cluster_centers), its lazily  *)
(* computed position caches (plot_data, plot_data_pca, link, _link_pca,    *)
(* _n_pca, pca) and the two renderers (plot, bokeh).                       *)
(*                                                                         *)
(* Numbers.  The code computes with floats; the model computes with exact  *)
(* rationals <<numerator, denominator>> in lowest terms, so that two       *)
(* positions are equal in the model exactly when they are equal as real    *)
(* numbers.  Float rounding is not modelled.                               *)
(*                                                                         *)
(* Collaborators.  KMeans, GaussianMixture, scipy's linkage/fcluster, PCA  *)
(* and the drawing libraries are outside the repository.  They are         *)
(* modelled at their interface, as stated at each definition.              *)
(***************************************************************************)
EXTENDS Integers, Sequences, FiniteSets, TLC

\* ------------------------------------------------------------------ bounds
\* Number of observations (rows of the dataset and of the labels frame).
NObs == 3
\* Largest cluster count k that a sweep may hold.
MaxK == 3
\* Data values are integers in 0..MaxVal.
MaxVal == 1
\* Largest PCA component count a caller requests.
MaxPca == 3
\* Number of position requests recorded in the request history.
MaxReq == 2

Obs == 1..NObs
Ks == 1..MaxK

\* ------------------------------------------------------- exact rationals
Abs(x) == IF x < 0 THEN -x ELSE x

RECURSIVE Gcd(_, _)
Gcd(a, b) == IF b = 0 THEN a ELSE Gcd(b, a % b)

\* n/d in lowest terms with a positive denominator (d # 0).
Rat(n, d) ==
  LET s == IF d < 0 THEN -1 ELSE 1
      g == Gcd(Abs(n), Abs(d))
  IN  <<(s * n) \div g, (s * d) \div g>>

RatInt(n) == <<n, 1>>
RatAdd(a, b) == Rat(a[1] * b[2] + b[1] * a[2], a[2] * b[2])
RatMul(a, b) == Rat(a[1] * b[1], a[2] * b[2])
RatSub(a, b) == Rat(a[1] * b[2] - b[1] * a[2], a[2] * b[2])
RatDivInt(a, n) == Rat(a[1], a[2] * n)
RatLess(a, b) == a[1] * b[2] < b[1] * a[2]

RECURSIVE RatSum(_)
RatSum(s) == IF s = <<>> THEN RatInt(0) ELSE RatAdd(Head(s), RatSum(Tail(s)))

\* The arithmetic mean of a non-empty sequence of rationals.
RatMean(s) == RatDivInt(RatSum(s), Len(s))

\* ------------------------------------------------------------ sequences
Range(s) == {s[i] : i \in DOMAIN s}

RECURSIVE SumSeq(_)
SumSeq(s) == IF s = <<>> THEN 0 ELSE Head(s) + SumSeq(Tail(s))

RECURSIVE MaxOf(_)
MaxOf(S) ==
  LET x == CHOOSE y \in S : TRUE
  IN  IF S = {x} THEN x
      ELSE LET m == MaxOf(S \ {x}) IN IF x > m THEN x ELSE m

\* The elements of a set of integers in ascending order.
RECURSIVE SortedInts(_)
SortedInts(S) ==
  IF S = {} THEN <<>>
  ELSE LET m == CHOOSE x \in S : \A y \in S : x <= y
       IN  <<m>> \o SortedInts(S \ {m})

\* The elements of a set of rationals in ascending order.
RECURSIVE SortedRats(_)
SortedRats(S) ==
  IF S = {} THEN <<>>
  ELSE LET m == CHOOSE x \in S : \A y \in S : ~RatLess(y, x)
       IN  <<m>> \o SortedRats(S \ {m})

\* ---------------------------------------------------------------- state
VARIABLES
  populated,        \* labels, cluster_centers and the caches exist
  k_range,          \* self.k_range
  backend,          \* self.backend (as constructed)
  method,           \* self.method
  kwargs,           \* self.kwargs
  backend_r,        \* self._backend (resolved)
  data,             \* self.data
  labels,           \* self.labels: k -> per-observation cluster index
  cluster_centers,  \* self.cluster_centers: k -> sequence of center vectors
  plot_data,        \* self.plot_data: k -> per-observation position
  plot_data_pca,    \* self.plot_data_pca: component count -> (k -> positions)
  link,             \* self.link: k -> (position -> cluster index)
  link_pca,         \* self._link_pca: component count -> k -> (position -> index)
  n_pca,            \* self._n_pca
  pca,              \* self.pca
  result,           \* what the last call did: its name, inputs and outcome
  chart,            \* what the last render handed to the drawing library
  hist,             \* the PCA-weighted position requests since (re)population
  calls             \* the position requests in flight: where each one stands

vars == <<populated, k_range, backend, method, kwargs, backend_r, data, labels,
          cluster_centers, plot_data, plot_data_pca, link, link_pca, n_pca, pca,
          result, chart, hist, calls>>

config == <<k_range, backend, method, kwargs, backend_r>>
store == <<data, labels, cluster_centers>>
caches == <<plot_data, plot_data_pca, link, link_pca, n_pca, pca>>

\* k_range = None.  Every k of the model is positive, so <<0>> is no sweep.
NoneRange == <<0>>
\* An attribute that was never assigned (self.data, self.pca, self.link).
Absent == <<>>
\* pd.DataFrame() and {}: no columns, no keys.
EmptyFrame == <<>>
NoChart == [markers |-> <<>>, edges |-> <<>>]
\* self.pca before the first fit: the attribute does not exist.
NoPca == [n_components |-> -1, components |-> <<>>]
HasPca(p) == p.n_components >= 0
\* The two callers that may have a render in flight on the same object.
Threads == {"first", "second"}
Idle == [pc |-> "idle", c |-> 0, basis |-> NoPca, p |-> 0, outcome |-> "none"]
\* No call is in flight, and no two calls have been in flight together.
NoCalls == [thread |-> [t \in Threads |-> Idle], overlapped |-> FALSE]

\* --------------------------------------------------- arrays and frames
\* The feature-wise mean of a non-empty sequence of integer rows.
FeatureMean(rows) ==
  [f \in 1..Len(rows[1]) |-> RatMean([i \in 1..Len(rows) |-> RatInt(rows[i][f])])]

\* The median of a non-empty set of observations' values of feature f.
MedianOf(vals) ==
  LET n == Len(vals)
  IN  IF n % 2 = 1 THEN RatInt(vals[(n + 1) \div 2])
      ELSE Rat(vals[n \div 2] + vals[n \div 2 + 1], 2)

\* The values dat[j][f], j in J, in ascending order (with repetitions).
RECURSIVE SortedVals(_, _, _)
SortedVals(dat, J, f) ==
  IF J = {} THEN <<>>
  ELSE LET j == CHOOSE x \in J : \A y \in J : dat[x][f] <= dat[y][f]
       IN  <<dat[j][f]>> \o SortedVals(dat, J \ {j}, f)

FeatureMedian(dat, J) ==
  [f \in 1..Len(dat[1]) |-> MedianOf(SortedVals(dat, J, f))]

Members(lab, c) == {j \in DOMAIN lab : lab[j] = c}
RowsOf(dat, J) == LET s == SortedInts(J) IN [i \in 1..Len(s) |-> dat[s[i]]]

\* data.groupby(lab).mean().values: one row per label value that occurs, in
\* ascending order of the label value.
GroupByMean(dat, lab) ==
  LET keys == SortedInts(Range(lab))
  IN  [r \in 1..Len(keys) |-> FeatureMean(RowsOf(dat, Members(lab, keys[r])))]

GroupByMedian(dat, lab) ==
  LET keys == SortedInts(Range(lab))
  IN  [r \in 1..Len(keys) |-> FeatureMedian(dat, Members(lab, keys[r]))]

\* np.mean(centers, axis=1): the mean of each center vector over its entries.
RowSums(centers) == [r \in 1..Len(centers) |-> RatSum(centers[r])]

RowMeans(centers) == [r \in 1..Len(centers) |-> RatMean(centers[r])]

\* centers.dot(axis)
RECURSIVE DotFrom(_, _, _)
DotFrom(v, axis, f) ==
  IF f > Len(v) THEN RatInt(0)
  ELSE RatAdd(RatMul(v[f], RatInt(axis[f])), DotFrom(v, axis, f + 1))

Dot(centers, axis) == [r \in 1..Len(centers) |-> DotFrom(centers[r], axis, 1)]

TakeByRow(means, lab) == [j \in DOMAIN lab |-> means[((j - 1) % Len(means)) + 1]]

\* np.take(means, lab): index l selects means[l] (0-based), a negative index
\* counts from the end, and an index outside [-len, len) raises IndexError.
TakeOk(means, lab) ==
  \A j \in DOMAIN lab : lab[j] < Len(means) /\ lab[j] >= -Len(means)

Take(means, lab) ==
  [j \in DOMAIN lab |->
     IF lab[j] >= 0 THEN means[lab[j] + 1] ELSE means[Len(means) + lab[j] + 1]]

\* dict(zip(means, range(n))): zip stops at the shorter of the two, and a
\* position that occurs twice keeps the last index.
LinkDict(means, n) ==
  LET m == IF Len(means) < n THEN Len(means) ELSE n
  IN  [y \in {means[i] : i \in 1..m} |->
         MaxOf({i - 1 : i \in {x \in 1..m : means[x] = y}})]

\* The first position p of kr whose element is not among those that pass,
\* or 0 when all pass.
FirstFail(kr, pass) ==
  LET bad == {p \in DOMAIN kr : kr[p] \notin pass}
  IN  IF bad = {} THEN 0 ELSE CHOOSE p \in bad : \A q \in bad : p <= q

\* The k values a loop over kr has completed when it stops at position fail.
DoneBefore(kr, fail) ==
  IF fail = 0 THEN Range(kr) ELSE {kr[p] : p \in 1..(fail - 1)}

\* ------------------------------------------------------------------ PCA
\* sklearn's PCA is outside the repository.  Its interface: fit(data) with
\* n_components = c raises ValueError unless 0 <= c <= min(n_samples,
\* n_features), and components_ then holds c axes, the first c of the basis
\* of the data.  The basis itself is abstracted: the feature axes in order
\* of decreasing variance of the data (ties by feature index).
FeatVar(dat, f) ==
  LET n == Len(dat)
      s1 == SumSeq([j \in 1..n |-> dat[j][f]])
      s2 == SumSeq([j \in 1..n |-> dat[j][f] * dat[j][f]])
  IN  n * s2 - s1 * s1

RECURSIVE AxesByVariance(_, _)
AxesByVariance(dat, F) ==
  IF F = {} THEN <<>>
  ELSE LET f == CHOOSE x \in F :
                  \A y \in F : \/ FeatVar(dat, x) > FeatVar(dat, y)
                               \/ (FeatVar(dat, x) = FeatVar(dat, y) /\ x <= y)
       IN  <<[g \in 1..Len(dat[1]) |-> IF g = f THEN 1 ELSE 0]>>
             \o AxesByVariance(dat, F \ {f})

PcaFitOk(dat, c) ==
  c >= 0 /\ c <= (IF Len(dat) < Len(dat[1]) THEN Len(dat) ELSE Len(dat[1]))

PcaFit(dat, c) ==
  [n_components |-> c, components |-> SubSeq(AxesByVariance(dat, 1..Len(dat[1])), 1, c)]

\* components_[idx] with Python's indexing.
AxisOk(comps, idx) == idx < Len(comps) /\ idx >= -Len(comps)
Axis(comps, idx) == IF idx >= 0 THEN comps[idx + 1] ELSE comps[Len(comps) + idx + 1]

\* -------------------------------------------------- _compute_means_sklearn
PlainMeans(n) == RowMeans(cluster_centers[n])

PlainStepOk(n) ==
  /\ n \in DOMAIN cluster_centers
  /\ n \in DOMAIN labels
  /\ TakeOk(PlainMeans(n), labels[n])

PlainStepError(n) ==
  IF n \notin DOMAIN cluster_centers \/ n \notin DOMAIN labels
  THEN "KeyError" ELSE "IndexError"

\* What _compute_means_sklearn leaves behind: link is reset, then one column
\* and one lookup per k of k_range, up to the first k that raises.
ComputeMeansSklearn ==
  LET fail == FirstFail(k_range, {x \in Range(k_range) : PlainStepOk(x)})
      done == DoneBefore(k_range, fail)
  IN  [outcome |-> IF fail = 0 THEN "ok" ELSE PlainStepError(k_range[fail]),
       plot_data |-> [n \in done |-> Take(PlainMeans(n), labels[n])],
       link |-> [n \in done |-> LinkDict(PlainMeans(n), n)]]

\* ---------------------------------------------- _compute_pca_means_sklearn
PcaFrame(c) == IF c \in DOMAIN plot_data_pca THEN plot_data_pca[c] ELSE EmptyFrame

\* centers.dot(axis) raises ValueError unless the centers have as many
\* features as the axis.
DotOk(centers, axis) == \A r \in 1..Len(centers) : Len(centers[r]) = Len(axis)

PcaStepOk(p, c, n) ==
  /\ n \in DOMAIN cluster_centers
  /\ HasPca(p)
  /\ AxisOk(p.components, c - 1)
  /\ DotOk(cluster_centers[n], Axis(p.components, c - 1))
  /\ n \in DOMAIN labels
  /\ TakeOk(Dot(cluster_centers[n], Axis(p.components, c - 1)), labels[n])

PcaStepError(p, c, n) ==
  IF n \notin DOMAIN cluster_centers THEN "KeyError"
  ELSE IF ~HasPca(p) THEN "AttributeError"
  ELSE IF ~AxisOk(p.components, c - 1) THEN "IndexError"
  ELSE IF ~DotOk(cluster_centers[n], Axis(p.components, c - 1)) THEN "ValueError"
  ELSE IF n \notin DOMAIN labels THEN "KeyError"
  ELSE "IndexError"

NeedsFitOnEqual(c) == c >= n_pca

\* The refit test of lines 745-747.
NeedsFit(c) == c > n_pca

\* The outcome of PCA(**pca_kwargs).fit(self.data).
FitError(c) ==
  IF data = Absent THEN "AttributeError"
  ELSE IF ~PcaFitOk(data, c) THEN "ValueError"
  ELSE "ok"

ComputePcaMeansSklearn(c) ==
  LET refit == NeedsFit(c)
      n1 == IF refit THEN c ELSE n_pca
      ferr == IF refit THEN FitError(c) ELSE "ok"
      p1 == IF refit /\ ferr = "ok" THEN PcaFit(data, c) ELSE pca
      Ok(n) == PcaStepOk(p1, c, n)
      fail == FirstFail(k_range, {x \in Range(k_range) : Ok(x)})
      done == DoneBefore(k_range, fail)
      Means(n) == Dot(cluster_centers[n], Axis(p1.components, c - 1))
      frame == [n \in done |-> Take(Means(n), labels[n])]
      lnk == [n \in done |-> LinkDict(Means(n), n)]
  IN  IF ferr # "ok"
      THEN [outcome |-> ferr, fit |-> FALSE, n_pca |-> n1, pca |-> pca,
            plot_data_pca |-> plot_data_pca, link_pca |-> link_pca]
      ELSE IF PcaFrame(c) # EmptyFrame
      THEN [outcome |-> "ok", fit |-> refit, n_pca |-> n1, pca |-> p1,
            plot_data_pca |-> plot_data_pca, link_pca |-> link_pca]
      ELSE [outcome |-> IF fail = 0 THEN "ok" ELSE PcaStepError(p1, c, k_range[fail]),
            fit |-> refit, n_pca |-> n1, pca |-> p1,
            plot_data_pca |->
              [x \in DOMAIN plot_data_pca \cup {c} |->
                 IF x = c THEN frame ELSE plot_data_pca[x]],
            link_pca |->
              IF done = {} THEN link_pca
              ELSE [x \in DOMAIN link_pca \cup {c} |->
                      IF x = c THEN lnk ELSE link_pca[x]]]

PcaRequestedClearingPlain(r) ==
  [outcome |-> r.outcome, fit |-> r.fit, plot_data |-> EmptyFrame, link |-> link,
   plot_data_pca |-> r.plot_data_pca, link_pca |-> r.link_pca,
   n_pca |-> r.n_pca, pca |-> r.pca]

\* ------------------------------------------------------- _compute_means
\* The caches and the outcome after self._compute_means(pca_weighted,
\* {"n_components": c}) on the sklearn and scipy backends.
PcaRequested(r) ==
  [outcome |-> r.outcome, fit |-> r.fit, plot_data |-> plot_data, link |-> link,
   plot_data_pca |-> r.plot_data_pca, link_pca |-> r.link_pca,
   n_pca |-> r.n_pca, pca |-> r.pca]

PlainRequested(r) ==
  [outcome |-> r.outcome, fit |-> FALSE, plot_data |-> r.plot_data,
   link |-> r.link, plot_data_pca |-> plot_data_pca, link_pca |-> link_pca,
   n_pca |-> n_pca, pca |-> pca]

ComputeMeans(pca_weighted, c) ==
  IF pca_weighted THEN PcaRequested(ComputePcaMeansSklearn(c))
  ELSE IF plot_data = EmptyFrame THEN PlainRequested(ComputeMeansSklearn)
  ELSE [outcome |-> "ok", fit |-> FALSE, plot_data |-> plot_data, link |-> link,
        plot_data_pca |-> plot_data_pca, link_pca |-> link_pca,
        n_pca |-> n_pca, pca |-> pca]

\* The request history: one entry per PCA-weighted request.
HistAfter(pca_weighted, c, r) ==
  IF pca_weighted
  THEN Append(hist, [c |-> c, fit |-> r.fit, outcome |-> r.outcome])
  ELSE hist

CachesBecome(r) ==
  /\ plot_data' = r.plot_data
  /\ link' = r.link
  /\ plot_data_pca' = r.plot_data_pca
  /\ link_pca' = r.link_pca
  /\ n_pca' = r.n_pca
  /\ pca' = r.pca

\* ------------------------------------------------------------ __init__
NoResult == [op |-> "init", outcome |-> "ok", pca_weighted |-> FALSE,
             pca_component |-> 0, k_sub |-> <<>>, stratify |-> 0, invoked |-> {}, how |-> "none"]

Res(op, outcome, pw, c, ks, st) ==
  [op |-> op, outcome |-> outcome, pca_weighted |-> pw, pca_component |-> c,
   k_sub |-> ks, stratify |-> st, invoked |-> {}, how |-> "none"]

\* Clustergram(k_range=kr, backend=be, method=me, linkage=lk)
New(kr, be, me, lk) ==
  /\ populated = FALSE
  /\ k_range = kr
  /\ backend = be
  /\ method = me
  /\ kwargs = [linkage |-> lk]
  /\ backend_r = be
  /\ data = Absent
  /\ labels = EmptyFrame
  /\ cluster_centers = EmptyFrame
  /\ plot_data = EmptyFrame
  /\ plot_data_pca = EmptyFrame
  /\ link = Absent
  /\ link_pca = EmptyFrame
  /\ n_pca = 0
  /\ pca = NoPca
  /\ result = NoResult
  /\ chart = NoChart
  /\ hist = <<>>
  /\ calls = NoCalls

\* What both class methods set on the object they return.
Constructed(kr, me, dat, lab, cen) ==
  /\ populated' = TRUE
  /\ k_range' = kr
  /\ backend' = "None"
  /\ method' = me
  /\ kwargs' = [linkage |-> "unset"]
  /\ backend_r' = "sklearn"
  /\ data' = dat
  /\ labels' = lab
  /\ cluster_centers' = cen
  /\ plot_data' = EmptyFrame
  /\ plot_data_pca' = EmptyFrame
  /\ link' = Absent
  /\ link_pca' = EmptyFrame
  /\ n_pca' = 0
  /\ pca' = NoPca
  /\ chart' = NoChart
  /\ hist' = <<>>
  /\ UNCHANGED calls

Fresh == ~populated /\ result.op = "init"

\* ------------------------------------------------------- from_centers
\* Clustergram.from_centers(cluster_centers, labels, data): ckeys are the
\* keys of cluster_centers in their order, lcols the columns of labels; dat
\* is Absent for data=None.
from_centers(ckeys, cen, lcols, lab, dat) ==
  /\ Fresh
  /\ IF ckeys # lcols
     THEN /\ result' = Res("from_centers", "ValueError", FALSE, 0, <<>>, 0)
          /\ UNCHANGED <<populated, config, store, caches, chart, hist, calls>>
     ELSE /\ Constructed(ckeys, "from_centers", dat, lab, cen)
          /\ result' = Res("from_centers", "ok", FALSE, 0, <<>>, 0)

\* ---------------------------------------------------------- from_data
\* The centers from_data builds: per column, the group means (or medians)
\* in ascending order of the label values that occur.
FromDataCenters(dat, lcols, lab, how) ==
  [i \in Range(lcols) |->
     IF how = "mean" THEN GroupByMean(dat, lab[i]) ELSE GroupByMedian(dat, lab[i])]

\* Clustergram.from_data(data, labels, method=how)
from_data(dat, lcols, lab, how) ==
  /\ Fresh
  /\ IF how \notin {"mean", "median"} /\ lcols # <<>>
     THEN /\ result' = Res("from_data", "ValueError", FALSE, 0, <<>>, 0)
          /\ UNCHANGED <<populated, config, store, caches, chart, hist, calls>>
     ELSE /\ Constructed(lcols, "from_data", dat, lab,
                         FromDataCenters(dat, lcols, lab, how))
          /\ result' = [Res("from_data", "ok", FALSE, 0, <<>>, 0) EXCEPT !.how = how]

\* ------------------------------------------------------ position request
\* self._compute_means(pca_weighted, {"n_components": c}) on its own: the
\* position request both renderers start with.
\* The object after the request left r behind.
Computed(r, pw, c) ==
  /\ CachesBecome(r)
  /\ hist' = HistAfter(pw, c, r)
  /\ result' = Res("compute_means", r.outcome, pw, IF pw THEN c ELSE 0, <<>>, 0)

compute_means(pw, c) ==
  /\ populated
  /\ pw => Len(hist) < MaxReq
  /\ Computed(ComputeMeans(pw, c), pw, c)
  /\ UNCHANGED <<populated, config, store, chart, calls>>

\* --------------------------------------------------- hierarchical linkage
\* scipy's linkage, to_tree and fcluster are outside the repository.  The
\* model: agglomerative clustering of the rows under the squared Euclidean
\* distance (it orders and ties pairs as the Euclidean distance does), the
\* distance of two clusters being the smallest ("single") or the largest
\* ("complete") distance of a pair of their members; among equally distant
\* pairs of clusters one is merged first.
SqDist(a, b) == SumSeq([f \in 1..Len(a) |-> (a[f] - b[f]) * (a[f] - b[f])])

ClusterDist(dat, A, B, how) ==
  LET ds == {SqDist(dat[i], dat[j]) : i \in A, j \in B}
  IN  IF how = "complete" THEN MaxOf(ds)
      ELSE CHOOSE d \in ds : \A e \in ds : d <= e

\* The merges, in order: each with its distance and the partition after it.
RECURSIVE Agglomerate(_, _, _)
Agglomerate(dat, how, part) ==
  IF Cardinality(part) <= 1 THEN <<>>
  ELSE LET pairs == {pr \in SUBSET part : Cardinality(pr) = 2}
           D(pr) == LET A == CHOOSE x \in pr : TRUE
                        B == CHOOSE y \in pr \ {A} : TRUE
                    IN  ClusterDist(dat, A, B, how)
           best == CHOOSE pr \in pairs : \A q \in pairs : D(pr) <= D(q)
           next == (part \ best) \cup {UNION best}
       IN  <<[dist |-> D(best), part |-> next]>> \o Agglomerate(dat, how, next)

Linkage(dat, how) == Agglomerate(dat, how, {{j} : j \in DOMAIN dat})

\* [node.dist for node in nodelist if node.dist > 0][::-1]
RECURSIVE PositiveDistsReversed(_)
PositiveDistsReversed(Z) ==
  IF Z = <<>> THEN <<>>
  ELSE PositiveDistsReversed(Tail(Z))
         \o (IF Head(Z).dist > 0 THEN <<Head(Z).dist>> ELSE <<>>)

\* fcluster(Z, d, criterion="distance"): the partition after the last merge
\* whose distance is at most d, numbered 1.. by smallest member.
FlatPartition(dat, Z, d) ==
  LET upto == {m \in DOMAIN Z : Z[m].dist <= d}
  IN  IF upto = {} THEN {{j} : j \in DOMAIN dat} ELSE Z[MaxOf(upto)].part

MinOf(S) == CHOOSE x \in S : \A y \in S : x <= y

FCluster(dat, Z, d) ==
  LET part == FlatPartition(dat, Z, d)
      Block(j) == CHOOSE B \in part : j \in B
  IN  [j \in DOMAIN dat |->
         Cardinality({B \in part : MinOf(B) <= MinOf(Block(j))})]

\* ------------------------------------------------------------------ fit
AllowedBackends == {"sklearn", "cuML", "scipy", "None"}
Supported == {"kmeans", "gmm", "minibatchkmeans", "hierarchical"}
ClassMethods == {"from_centers", "from_data"}

ResolvedBackend ==
  IF backend = "None"
  THEN (IF method = "hierarchical" THEN "scipy" ELSE "sklearn")
  ELSE backend

FitCheckWithoutMethodCheck ==
  LET b == ResolvedBackend
  IN  IF backend \notin AllowedBackends THEN 1
      ELSE IF k_range = NoneRange /\ method # "hierarchical" THEN 2
      ELSE IF \/ (b = "cuML" /\ method # "kmeans")
              \/ (b = "scipy" /\ method # "hierarchical")
              \/ (b = "sklearn" /\ method = "hierarchical") THEN 3
      ELSE 0

\* Where fit raises ValueError before computing anything: 0 when it does not,
\* else the number of the failing check (lines 154, 165, 168, 180).
FitCheck ==
  LET b == ResolvedBackend
  IN  IF backend \notin AllowedBackends THEN 1
      ELSE IF k_range = NoneRange /\ method # "hierarchical" THEN 2
      ELSE IF \/ (b = "cuML" /\ method # "kmeans")
              \/ (b = "scipy" /\ method # "hierarchical")
              \/ (b = "sklearn" /\ method = "hierarchical") THEN 3
      ELSE IF method \notin Supported /\ method \notin ClassMethods THEN 4
      ELSE 0

Zeros(n) == [j \in 1..n |-> 0]
AsRats(row) == [f \in 1..Len(row) |-> RatInt(row[f])]

\* KMeans(n_clusters=n).fit(X) and GaussianMixture(n_components=n).fit(X)
\* raise ValueError when X has fewer than n rows.
EstimatorOk(X, n) == n <= Len(X)

KMeansSweepNoSkip(X, out) ==
  LET Ok(n) == EstimatorOk(X, n)
      fail == FirstFail(k_range, {x \in Range(k_range) : Ok(x)})
      done == DoneBefore(k_range, fail)
  IN  [outcome |-> IF fail = 0 THEN "ok" ELSE "ValueError",
       invoked |-> done \cup (IF fail = 0 THEN {} ELSE {k_range[fail]}),
       k_range |-> k_range,
       kwargs |-> kwargs,
       labels |-> [n \in done |-> out[n].labels],
       centers |-> [n \in done |-> out[n].centers]]

\* _kmeans_sklearn and _kmeans_cuml: out[n] is what KMeans returned for n.
KMeansSweep(X, out) ==
  LET Ok(n) == n = 1 \/ EstimatorOk(X, n)
      fail == FirstFail(k_range, {x \in Range(k_range) : Ok(x)})
      done == DoneBefore(k_range, fail)
  IN  [outcome |-> IF fail = 0 THEN "ok" ELSE "ValueError",
       invoked |-> (done \cup (IF fail = 0 THEN {} ELSE {k_range[fail]})) \ {1},
       k_range |-> k_range,
       kwargs |-> kwargs,
       labels |-> [n \in done |-> IF n = 1 THEN Zeros(Len(X)) ELSE out[n].labels],
       centers |-> [n \in done |->
                      IF n = 1 THEN <<FeatureMean(X)>> ELSE out[n].centers]]

\* _gmm_sklearn: out[n].argmax[i] is the row of X with the largest density
\* under component i; that row is the center of component i.
GmmSweep(X, out) ==
  LET Ok(n) == EstimatorOk(X, n)
      fail == FirstFail(k_range, {x \in Range(k_range) : Ok(x)})
      done == DoneBefore(k_range, fail)
  IN  [outcome |-> IF fail = 0 THEN "ok" ELSE "ValueError",
       invoked |-> done \cup (IF fail = 0 THEN {} ELSE {k_range[fail]}),
       k_range |-> k_range,
       kwargs |-> kwargs,
       labels |-> [n \in done |-> out[n].labels],
       centers |-> [n \in done |->
                      [i \in 1..n |-> AsRats(X[out[n].argmax[i]])]]]

\* _scipy_hierarchical
HierarchicalSweep(X) ==
  LET how == IF kwargs.linkage = "unset" THEN "single" ELSE kwargs.linkage
      Z == Linkage(X, how)
      distances == PositiveDistsReversed(Z)
      kr == IF k_range = NoneRange
            THEN [i \in 1..Len(distances) |-> i] ELSE k_range
      Ok(i) == i - 1 < Len(distances)
      fail == FirstFail(kr, {x \in Range(kr) : Ok(x)})
      done == DoneBefore(kr, fail)
      Lab(i) == FCluster(X, Z, distances[i])
  IN  [outcome |-> IF fail = 0 THEN "ok" ELSE "IndexError",
       invoked |-> done,
       k_range |-> kr,
       kwargs |-> [linkage |-> "unset"],
       labels |-> [i \in done |-> [j \in DOMAIN X |-> Lab(i)[j] - 1]],
       centers |-> [i \in done |-> GroupByMean(X, Lab(i))]]

\* The sweep fit dispatches to (lines 207-217); none for a method that is
\* one of the class methods.
Sweep(X, out) ==
  LET b == ResolvedBackend
  IN  IF b = "scipy" THEN HierarchicalSweep(X)
      ELSE IF b = "cuML" \/ method \in {"kmeans", "minibatchkmeans"}
      THEN KMeansSweep(X, out)
      ELSE IF method = "gmm" THEN GmmSweep(X, out)
      ELSE [outcome |-> "ok", invoked |-> {}, k_range |-> k_range,
            kwargs |-> kwargs, labels |-> labels, centers |-> cluster_centers]

FittedKeepingPcaPositions(X, s) ==
  /\ backend_r' = ResolvedBackend
  /\ populated' = TRUE
  /\ plot_data' = EmptyFrame
  /\ n_pca' = 0
  /\ link_pca' = EmptyFrame
  /\ data' = X
  /\ k_range' = s.k_range
  /\ kwargs' = s.kwargs
  /\ labels' = s.labels
  /\ cluster_centers' = s.centers
  /\ hist' = <<>>
  /\ result' = [Res("fit", s.outcome, FALSE, 0, <<>>, 0)
                  EXCEPT !.invoked = s.invoked]
  /\ UNCHANGED <<backend, method, link, pca, chart, plot_data_pca, calls>>

\* The object after fit's checks passed and the sweep left s (lines 186-219).
Fitted(X, s) ==
  /\ backend_r' = ResolvedBackend
  /\ populated' = TRUE
  /\ plot_data' = EmptyFrame
  /\ plot_data_pca' = EmptyFrame
  /\ n_pca' = 0
  /\ link_pca' = EmptyFrame
  /\ data' = X
  /\ k_range' = s.k_range
  /\ kwargs' = s.kwargs
  /\ labels' = s.labels
  /\ cluster_centers' = s.centers
  /\ hist' = <<>>
  /\ result' = [Res("fit", s.outcome, FALSE, 0, <<>>, 0)
                  EXCEPT !.invoked = s.invoked]
  /\ UNCHANGED <<backend, method, link, pca, chart, calls>>

\* fit(X); out is what the clustering estimator returns for each k.
fit(X, out) ==
  IF FitCheck # 0
  THEN /\ backend_r' = IF FitCheck = 1 THEN backend_r ELSE ResolvedBackend
       /\ result' = Res("fit", "ValueError", FALSE, 0, <<>>, 0)
       /\ UNCHANGED <<populated, k_range, backend, method, kwargs, store, caches,
                      chart, hist, calls>>
  ELSE Fitted(X, Sweep(X, out))

\* ------------------------------------------------- groupby and counting
\* Lexicographic order of tuples of rationals of equal length.
RECURSIVE LexLess(_, _)
LexLess(a, b) ==
  IF a = <<>> THEN FALSE
  ELSE IF RatLess(Head(a), Head(b)) THEN TRUE
  ELSE IF RatLess(Head(b), Head(a)) THEN FALSE
  ELSE LexLess(Tail(a), Tail(b))

RECURSIVE SortedKeys(_)
SortedKeys(S) ==
  IF S = {} THEN <<>>
  ELSE LET m == CHOOSE x \in S : \A y \in S : ~LexLess(y, x)
       IN  <<m>> \o SortedKeys(S \ {m})

\* means[i].value_counts(): the distinct positions at i, each with the number
\* of observations at it.  pandas orders them by decreasing count; the order
\* is not modelled (the positions are listed in ascending order).
ValueCounts(means, i) ==
  LET ys == SortedRats(Range(means[i]))
  IN  [r \in 1..Len(ys) |->
         [k |-> i, y |-> ys[r],
          count |-> Cardinality({j \in DOMAIN means[i] : means[i][j] = ys[r]})]]

\* The columns means.groupby([i, i + 1]).count() has a count for: every
\* column of the frame that is not a grouping key.
CountedColumns(means, i) == DOMAIN means \ {i, i + 1}

PairGroupsByLabel(means, i) ==
  LET J == DOMAIN means[i]
      keys == SortedKeys({<<RatInt(labels[i][j]), RatInt(labels[i + 1][j])>> : j \in J})
      Mem(key) == {j \in J : /\ labels[i][j] = key[1][1]
                             /\ labels[i + 1][j] = key[2][1]}
      Rep(key) == CHOOSE j \in Mem(key) : TRUE
  IN  [r \in 1..Len(keys) |->
         [k |-> i, head |-> means[i][Rep(keys[r])],
          tail |-> means[i + 1][Rep(keys[r])],
          count |-> Cardinality(Mem(keys[r]))]]

\* means.groupby([i, i + 1]).count().reset_index(): one row per
\* (position at i, position at i + 1) that occurs, in ascending order.
PairGroups(means, i) ==
  LET keys == SortedKeys({<<means[i][j], means[i + 1][j]>> : j \in DOMAIN means[i]})
  IN  [r \in 1..Len(keys) |->
         [k |-> i, head |-> keys[r][1], tail |-> keys[r][2],
          count |-> Cardinality({j \in DOMAIN means[i] :
                                   /\ means[i][j] = keys[r][1]
                                   /\ means[i + 1][j] = keys[r][2]})]]

StrataGroupsRowTotals(means, i, strata) ==
  LET J == DOMAIN means[i]
      keys == SortedKeys({<<means[i][j], means[i + 1][j], RatInt(strata[j])>> : j \in J})
      Cnt(key) == Cardinality({j \in J : /\ means[i][j] = key[1]
                                         /\ means[i + 1][j] = key[2]
                                         /\ RatInt(strata[j]) = key[3]})
  IN  [r \in 1..Len(keys) |->
         [k |-> i, head |-> keys[r][1], tail |-> keys[r][2],
          stratum |-> keys[r][3][1], count_strata |-> Cnt(keys[r]),
          count_head |-> Cardinality({q \in 1..Len(keys) : keys[q][1] = keys[r][1]}),
          count_tail |-> Cardinality({q \in 1..Len(keys) : keys[q][2] = keys[r][2]})]]

\* The stratified frame of lines 1010-1023: one row per (head, tail,
\* stratum) that occurs, with count_strata, and the sums of count_strata
\* over the rows of its head (count_head) and of its tail (count_tail).
StrataGroups(means, i, strata) ==
  LET J == DOMAIN means[i]
      keys == SortedKeys({<<means[i][j], means[i + 1][j], RatInt(strata[j])>> : j \in J})
      Cnt(key) == Cardinality({j \in J : /\ means[i][j] = key[1]
                                         /\ means[i + 1][j] = key[2]
                                         /\ RatInt(strata[j]) = key[3]})
      HeadSum(h) == SumSeq([r \in 1..Len(keys) |->
                              IF keys[r][1] = h THEN Cnt(keys[r]) ELSE 0])
      TailSum(t) == SumSeq([r \in 1..Len(keys) |->
                              IF keys[r][2] = t THEN Cnt(keys[r]) ELSE 0])
  IN  [r \in 1..Len(keys) |->
         [k |-> i, head |-> keys[r][1], tail |-> keys[r][2],
          stratum |-> keys[r][3][1], count_strata |-> Cnt(keys[r]),
          count_head |-> HeadSum(keys[r][1]), count_tail |-> TailSum(keys[r][2])]]

\* np.nan: no number, and unequal to every position.
NaN == <<0, 0>>

\* linewidth_dy of lines 944-950 for the default linewidth: the extent of the
\* values of the frame (positions and label_strata), times the factor
\* linewidth ** 2 / (72 * axis height in inches), a positive constant of the
\* figure that is taken as 1.
LinewidthDy(means, strata) ==
  LET vals == UNION {Range(means[n]) : n \in DOMAIN means}
                \cup {RatInt(strata[j]) : j \in DOMAIN strata}
      sorted == SortedRats(vals)
  IN  RatSub(sorted[Len(sorted)], sorted[1])

\* last_head, last_tail, head_offset and tail_offset before the first row
\* (lines 1024-1025), and the parallelograms drawn so far.
NoOffsets ==
  [last_head |-> NaN, last_tail |-> NaN, head_offset |-> RatInt(0),
   tail_offset |-> RatInt(0), out |-> <<>>]

RECURSIVE ParallelogramsByTailFraction(_, _, _, _, _)
ParallelogramsByTailFraction(sub, n, lw, p, acc) ==
  IF p > Len(sub) THEN acc.out
  ELSE LET r == sub[p]
           head_width == RatMul(lw, Rat(r.count_head, n))
           tail_width == RatMul(lw, Rat(r.count_tail, n))
           head_offset == IF r.head # acc.last_head THEN RatDivInt(head_width, 2)
                          ELSE acc.head_offset
           tail_offset == IF r.tail # acc.last_tail THEN RatDivInt(tail_width, 2)
                          ELSE acc.tail_offset
           pgram_height == RatMul(Rat(r.count_strata, r.count_tail), head_width)
       IN  ParallelogramsByTailFraction(sub, n, lw, p + 1,
             [last_head |-> r.head, last_tail |-> r.tail,
              head_offset |-> RatSub(head_offset, pgram_height),
              tail_offset |-> RatSub(tail_offset, pgram_height),
              out |-> Append(acc.out,
                [k |-> r.k, head |-> r.head, tail |-> r.tail, stratum |-> r.stratum,
                 count_strata |-> r.count_strata, count_head |-> r.count_head,
                 count_tail |-> r.count_tail,
                 lower_left |-> RatSub(r.head, head_offset),
                 upper_left |-> RatAdd(RatSub(r.head, head_offset), pgram_height),
                 lower_right |-> RatSub(r.tail, tail_offset),
                 upper_right |-> RatAdd(RatSub(r.tail, tail_offset), pgram_height)])])

\* The loop of lines 1026-1075 in stratified mode, from row p of sub on: one
\* parallelogram per row, n being len(means) and lw linewidth_dy.
RECURSIVE Parallelograms(_, _, _, _, _)
Parallelograms(sub, n, lw, p, acc) ==
  IF p > Len(sub) THEN acc.out
  ELSE LET r == sub[p]
           head_width == RatMul(lw, Rat(r.count_head, n))
           tail_width == RatMul(lw, Rat(r.count_tail, n))
           head_offset == IF r.head # acc.last_head THEN RatDivInt(head_width, 2)
                          ELSE acc.head_offset
           tail_offset == IF r.tail # acc.last_tail THEN RatDivInt(tail_width, 2)
                          ELSE acc.tail_offset
           pgram_height == RatMul(Rat(r.count_strata, r.count_head), head_width)
       IN  Parallelograms(sub, n, lw, p + 1,
             [last_head |-> r.head, last_tail |-> r.tail,
              head_offset |-> RatSub(head_offset, pgram_height),
              tail_offset |-> RatSub(tail_offset, pgram_height),
              out |-> Append(acc.out,
                [k |-> r.k, head |-> r.head, tail |-> r.tail, stratum |-> r.stratum,
                 count_strata |-> r.count_strata, count_head |-> r.count_head,
                 count_tail |-> r.count_tail,
                 lower_left |-> RatSub(r.head, head_offset),
                 upper_left |-> RatAdd(RatSub(r.head, head_offset), pgram_height),
                 lower_right |-> RatSub(r.tail, tail_offset),
                 upper_right |-> RatAdd(RatSub(r.tail, tail_offset), pgram_height)])])

\* ----------------------------------------------------------------- plot
\* ax.scatter([i] * i, [cl.index], sizes): matplotlib raises ValueError
\* ("x and y must be the same size") unless the i x-values meet i positions.
ScatterOk(i, cl) == Len(cl) = i

\* The body of contextlib.suppress(KeyError, ValueError) for one i (lines
\* 999-1075): the edges it draws and how it ends.  A KeyError (no column
\* i + 1) and a ValueError (a row too short to unpack) end it silently; the
\* IndexError of .iloc[:, 0] on a frame without counted columns escapes.
PlotEdges(means, kr, i, st) ==
  IF i + 1 > kr[Len(kr)] THEN [outcome |-> "ok", edges |-> <<>>]
  ELSE IF i + 1 \notin DOMAIN means THEN [outcome |-> "ok", edges |-> <<>>]
  ELSE IF st = 0
  THEN [outcome |-> "ok",
        edges |-> IF CountedColumns(means, i) = {} THEN <<>>
                  ELSE PairGroups(means, i)]
  ELSE IF CountedColumns(means, i) = {}
  THEN [outcome |-> "IndexError", edges |-> <<>>]
  ELSE [outcome |-> "ok",
        edges |-> Parallelograms(StrataGroups(means, i, labels[st]), Len(means[i]),
                                 LinewidthDy(means, labels[st]), 1, NoOffsets)]

\* What is raised for one i before its markers are drawn (lines 955-997):
\* in stratified mode the KeyError of a labels column that is missing and the
\* IndexError of .iloc[:, 0] when labels has no column besides i and st;
\* the KeyError of means[i]; the ValueError of ax.scatter.
MarkerError(means, i, st) ==
  IF st # 0 /\ i \notin DOMAIN labels THEN "KeyError"
  ELSE IF st # 0 /\ i # st /\ DOMAIN labels \ {i, st} = {} THEN "IndexError"
  ELSE IF i \notin DOMAIN means THEN "KeyError"
  ELSE IF ~ScatterOk(i, ValueCounts(means, i)) THEN "ValueError"
  ELSE "ok"

\* The loop of line 954 from position p of kr on; acc is what is drawn.
RECURSIVE PlotLoop(_, _, _, _, _)
PlotLoop(means, kr, p, st, acc) ==
  IF p > Len(kr) THEN [outcome |-> "ok", markers |-> acc.markers, edges |-> acc.edges]
  ELSE LET i == kr[p]
           m == MarkerError(means, i, st)
       IN  IF m # "ok"
           THEN [outcome |-> m, markers |-> acc.markers, edges |-> acc.edges]
           ELSE LET cl == ValueCounts(means, i)
                    e == PlotEdges(means, kr, i, st)
                IN  IF e.outcome # "ok"
                    THEN [outcome |-> e.outcome, markers |-> acc.markers \o cl,
                          edges |-> acc.edges]
                    ELSE PlotLoop(means, kr, p + 1, st,
                                  [markers |-> acc.markers \o cl,
                                   edges |-> acc.edges \o e.edges])

\* What is raised between _compute_means and the loop (lines 929-936) when
\* stratify_by_k = st: labels_[st] of a k that is no column, and the color
\* look-up table's ki / (st - 1) for st = 1.
StratifyError(st) ==
  IF st = 0 THEN "ok"
  ELSE IF st \notin DOMAIN labels THEN "KeyError"
  ELSE IF st = 1 THEN "ZeroDivisionError"
  ELSE "ok"

\* The frame a renderer reads its positions from.
MeansFrame(r, pw, c) == IF pw THEN r.plot_data_pca[c] ELSE r.plot_data

\* The object after a renderer's position request left r behind and it drew
\* d.
Rendered(op, r, d, ks, pw, c, st) ==
  /\ CachesBecome(r)
  /\ hist' = HistAfter(pw, c, r)
  /\ chart' = [markers |-> d.markers, edges |-> d.edges]
  /\ result' = Res(op, d.outcome, pw, IF pw THEN c ELSE 0, ks, st)

\* What plot draws after its position request left r behind.
Draw(r, kr, pw, c, st) ==
  IF r.outcome # "ok"
  THEN [outcome |-> r.outcome, markers |-> <<>>, edges |-> <<>>]
  ELSE IF StratifyError(st) # "ok"
  THEN [outcome |-> StratifyError(st), markers |-> <<>>, edges |-> <<>>]
  ELSE PlotLoop(MeansFrame(r, pw, c), kr, 1, st, NoChart)

Plotted(r, ks, pw, c, st) ==
  Rendered("plot", r, Draw(r, IF ks = NoneRange THEN k_range ELSE ks, pw, c, st),
           ks, pw, c, st)

plotStoringRange(ks, pw, c, st) ==
  /\ populated
  /\ pw => Len(hist) < MaxReq
  /\ Plotted(ComputeMeans(pw, c), ks, pw, c, st)
  /\ k_range' = IF ks = NoneRange THEN k_range ELSE ks
  /\ UNCHANGED <<populated, backend, method, kwargs, backend_r, store, calls>>

\* plot(k_range=ks, stratify_by_k=st, pca_weighted=pw, pca_component=c); ks
\* is NoneRange for k_range=None and st is 0 for stratify_by_k=None.
plot(ks, pw, c, st) ==
  /\ populated
  /\ pw => Len(hist) < MaxReq
  /\ Plotted(ComputeMeans(pw, c), ks, pw, c, st)
  /\ UNCHANGED <<populated, config, store, calls>>

\* ---------------------------------------------------------------- bokeh
\* The marker columns of lines 1211-1218, from position p of k_range on.
RECURSIVE BokehMarkers(_, _, _, _)
BokehMarkers(means, links, p, acc) ==
  IF p > Len(k_range) THEN [outcome |-> "ok", markers |-> acc]
  ELSE LET i == k_range[p]
       IN  IF i \notin DOMAIN means THEN [outcome |-> "KeyError", markers |-> acc]
           ELSE LET cl == ValueCounts(means, i)
                IN  IF \/ i \notin DOMAIN links
                       \/ \E r \in DOMAIN cl : cl[r].y \notin DOMAIN links[i]
                    THEN [outcome |-> "KeyError", markers |-> acc]
                    ELSE BokehMarkers(means, links, p + 1, acc \o cl)

\* The lines of lines 1236-1250, from position p of k_range on.
RECURSIVE BokehLines(_, _, _)
BokehLines(means, p, acc) ==
  IF p > Len(k_range) THEN [outcome |-> "ok", edges |-> acc]
  ELSE LET i == k_range[p]
       IN  IF ~(i < MaxOf(Range(k_range))) THEN BokehLines(means, p + 1, acc)
           ELSE IF i + 1 \notin DOMAIN means
           THEN [outcome |-> "KeyError", edges |-> acc]
           ELSE IF CountedColumns(means, i) = {}
           THEN [outcome |-> "IndexError", edges |-> acc]
           ELSE BokehLines(means, p + 1, acc \o PairGroups(means, i))

\* The lookups the markers are labelled from.
Links(r, pw, c) ==
  IF pw THEN (IF c \in DOMAIN r.link_pca THEN r.link_pca[c] ELSE <<>>) ELSE r.link

\* The column x of the marker source (line 1213): x += [i] * i for each i of
\* the range, whatever the number of positions at i.
RECURSIVE XColumn(_)
XColumn(kr) ==
  IF kr = <<>> THEN <<>>
  ELSE [p \in 1..Head(kr) |-> Head(kr)] \o XColumn(Tail(kr))

\* The markers of ColumnDataSource(data={"x": x, "y": y, "count": count}):
\* the p-th marker has the p-th entry of each column.  The columns y and
\* count hold one entry per position (cl), the column x holds xs.
SourceRows(xs, cl) ==
  [p \in 1..(IF Len(xs) < Len(cl) THEN Len(xs) ELSE Len(cl)) |->
     [k |-> xs[p], y |-> cl[p].y, count |-> cl[p].count]]

\* What bokeh has drawn when its request left r, its marker columns ended as
\* m and its lines as l.  The marker columns are built first and the marker
\* glyph is added last, so a call that fails on a line has drawn no marker.
BokehChart(r, m, l) ==
  IF r.outcome # "ok"
  THEN [outcome |-> r.outcome, markers |-> <<>>, edges |-> <<>>]
  ELSE IF m.outcome # "ok"
  THEN [outcome |-> m.outcome, markers |-> <<>>, edges |-> <<>>]
  ELSE IF l.outcome # "ok"
  THEN [outcome |-> l.outcome, markers |-> <<>>, edges |-> l.edges]
  ELSE [outcome |-> "ok", markers |-> SourceRows(XColumn(k_range), m.markers),
        edges |-> l.edges]

DrawBokeh(r, pw, c) ==
  IF r.outcome # "ok" THEN BokehChart(r, r, r)
  ELSE BokehChart(r, BokehMarkers(MeansFrame(r, pw, c), Links(r, pw, c), 1, <<>>),
                  IF k_range = <<>> THEN [outcome |-> "ValueError", edges |-> <<>>]
                  ELSE BokehLines(MeansFrame(r, pw, c), 1, <<>>))

Bokehed(r, pw, c) == Rendered("bokeh", r, DrawBokeh(r, pw, c), NoneRange, pw, c, 0)

\* bokeh(pca_weighted=pw, pca_component=c)
bokeh(pw, c) ==
  /\ populated
  /\ pw => Len(hist) < MaxReq
  /\ Bokehed(ComputeMeans(pw, c), pw, c)
  /\ UNCHANGED <<populated, config, store, calls>>

\* -------------------------------------------- the documented examples
RatRows(rows) == [r \in 1..Len(rows) |-> AsRats(rows[r])]

\* The labels frame of the from_centers and from_data examples (lines 402,
\* 476): columns 1, 2, 3, one row per observation.
ExampleLabels == <<<<0, 0, 0>>, <<0, 0, 1>>, <<0, 2, 1>>>>
\* The centers of the from_centers example (lines 408-412).
ExampleCenters ==
  <<RatRows(<<<<0, 0>>>>),
    RatRows(<<<<-1, -1>>, <<1, 1>>>>),
    RatRows(<<<<-1, -1>>, <<1, 1>>, <<0, 0>>>>)>>
\* The data of the from_centers example (line 416).
ExampleData == <<<<-1, -1>>, <<1, 1>>, <<0, 0>>>>
\* The data of the from_data example (line 471).
ExampleData4 == <<<<-1, -1, 0, 10>>, <<1, 1, 10, 2>>, <<0, 0, 20, 4>>>>

\* What an estimator with means as centers returns for n clusters and labels
\* lab: the group mean for a cluster with members, row e of X for one
\* without.
MeanCenters(X, n, lab, e) ==
  [i \in 1..n |->
     IF Members(lab, i - 1) = {} THEN AsRats(X[e])
     ELSE FeatureMean(RowsOf(X, Members(lab, i - 1)))]

Estimated(X, lab, e, am) ==
  [n \in DOMAIN lab |->
     [labels |-> lab[n], centers |-> MeanCenters(X, n, lab[n], e),
      argmax |-> [i \in 1..n |-> am[((i - 1) % Len(am)) + 1]]]]

\* ------------------------------------------------- the object's life
\* The objects of Spec are built from the documented examples; what varies
\* is the configuration, the construction path and the calls made.
Range123 == <<1, 2, 3>>
\* A k_range whose last k exceeds the number of rows of the data fit gets.
LongRange == [k \in 1..(MaxK + 1) |-> k]
\* The configurations objects are constructed with: <<k_range, backend,
\* method, linkage>>, one for each way through fit's checks and dispatch.
Configs ==
  {<<Range123, "None", "kmeans", "unset">>,
   <<Range123, "sklearn", "minibatchkmeans", "unset">>,
   <<Range123, "sklearn", "gmm", "unset">>,
   <<Range123, "None", "hierarchical", "unset">>,
   <<NoneRange, "None", "hierarchical", "unset">>,
   <<NoneRange, "scipy", "hierarchical", "complete">>,
   <<Range123, "gpu", "kmeans", "unset">>,
   <<NoneRange, "None", "kmeans", "unset">>,
   <<Range123, "cuML", "gmm", "unset">>,
   <<LongRange, "None", "kmeans", "unset">>,
   <<Range123, "scipy", "kmeans", "unset">>,
   <<Range123, "sklearn", "hierarchical", "unset">>,
   <<Range123, "None", "spectral", "unset">>}
\* The data fit is called with: none of its rows is the mean of the rows.
SkewData == <<<<0, 0>>, <<MaxVal, 0>>, <<MaxVal, MaxVal>>>>
FitData == {SkewData}
PlotRanges == {NoneRange, <<2, 3>>, <<3, 2>>, <<2, MaxK + 1>>}
\* pca_component names a principal component, counted from 1: the first and
\* the MaxPca-th are requested.
Components == {1, MaxPca}
\* The position requests made: plain, or PCA-weighted by component c.
Requests == {<<FALSE, 1>>} \cup {<<TRUE, c>> : c \in Components}
\* The requests the renderers are called with: the default component.
RenderRequests == {<<FALSE, 1>>, <<TRUE, 1>>}
\* stratify_by_k of the plot calls: None (0) or the column 2.
Strata == {0, 2}
Sub(f, cols) == [n \in Range(cols) |-> f[n]]

Init == \E cf \in Configs : New(cf[1], cf[2], cf[3], cf[4])

Next ==
  \/ \E ck \in {Range123, <<1, 2>>}, lc \in {Range123, <<1, 2>>},
        dat \in {Absent, ExampleData} :
       from_centers(ck, Sub(ExampleCenters, ck), lc, Sub(ExampleLabels, lc), dat)
  \/ \E how \in {"mean", "median", "mode"} :
       from_data(ExampleData4, Range123, ExampleLabels, how)
  \/ \E X \in FitData : fit(X, Estimated(X, ExampleLabels, 1, <<3, 1, 2>>))
  \/ \E rq \in Requests : compute_means(rq[1], rq[2])
  \/ \E ks \in PlotRanges, rq \in RenderRequests, st \in Strata :
       plot(ks, rq[1], rq[2], st)
  \/ \E rq \in RenderRequests : bokeh(rq[1], rq[2])

Spec == Init /\ [][Next]_vars

\* ------------------------------------- objects over a family of inputs
\* SpecFamily builds objects with the class methods from every labels frame
\* with MaxK columns over NObs observations whose column k holds labels in
\* [0, k), and from data whose rows hold values in 0..MaxVal.
KSeq == [k \in Ks |-> k]
Points == {<<a, b>> : a, b \in 0..MaxVal}
DataFamily ==
  {X \in [Obs -> Points] : X[1] = <<0, 0>> /\ X[2] = <<MaxVal, 0>>}
LabelFamily ==
  {lab \in [Ks -> [Obs -> 0..(MaxK - 1)]] : \A k \in Ks, j \in Obs : lab[k][j] < k}
\* Centers an estimator could have returned for the labels.
FamilyCenters(X, lab) == [k \in Ks |-> MeanCenters(X, k, lab[k], 1)]

InitFamily == New(NoneRange, "None", "kmeans", "unset")

NextFamily ==
  \/ \E X \in DataFamily, lab \in LabelFamily, how \in {"mean", "median"} :
       from_data(X, KSeq, lab, how)
  \/ \E X \in DataFamily, lab \in LabelFamily :
       from_centers(KSeq, FamilyCenters(X, lab), KSeq, lab, X)
  \/ compute_means(FALSE, 1)
  \/ \E st \in 0..MaxK : plot(NoneRange, FALSE, 1, st)

SpecFamily == InitFamily /\ [][NextFamily]_vars

\* ------------------------------- two renders in flight on one object
\* SpecConcurrent runs _compute_pca_means_sklearn for two callers on the
\* object of the from_centers example, one statement at a time: there is no
\* lock in the class, so the statements of two calls interleave freely.
\* The component counts requested are those the data allows, so that every
\* fit succeeds.
ConcurrentCounts == 1..Len(ExampleData[1])
ThreadAt(t) == calls.thread[t]
InFlight(t) == ThreadAt(t).pc \notin {"idle", "done", "raised"}
Moves(t, rec) == calls' = [calls EXCEPT !.thread[t] = rec]
\* What no statement of _compute_pca_means_sklearn assigns.
RestUntouched ==
  UNCHANGED <<populated, config, store, plot_data, link, result, chart, hist>>
WithColumn(frame, n, col) ==
  [m \in DOMAIN frame \cup {n} |-> IF m = n THEN col ELSE frame[m]]
LinkFrame(c) == IF c \in DOMAIN link_pca THEN link_pca[c] ELSE <<>>

InitConcurrent ==
  /\ populated = TRUE
  /\ k_range = Range123
  /\ backend = "None"
  /\ method = "from_centers"
  /\ kwargs = [linkage |-> "unset"]
  /\ backend_r = "sklearn"
  /\ data = ExampleData
  /\ labels = ExampleLabels
  /\ cluster_centers = ExampleCenters
  /\ plot_data = EmptyFrame
  /\ plot_data_pca = EmptyFrame
  /\ link = Absent
  /\ link_pca = EmptyFrame
  /\ n_pca = 0
  /\ pca = NoPca
  /\ result = Res("from_centers", "ok", FALSE, 0, <<>>, 0)
  /\ chart = NoChart
  /\ hist = <<>>
  /\ calls = NoCalls

\* A renderer passes its pca_component on (lines 889-890, 1170-1171) and
\* _compute_pca_means_sklearn reads it (line 744).
Call(t, c) ==
  /\ ~InFlight(t)
  /\ calls' = [thread |-> [calls.thread EXCEPT ![t] = [Idle EXCEPT !.pc = "test", !.c = c]],
               overlapped |-> calls.overlapped \/ \E u \in Threads \ {t} : InFlight(u)]
  /\ UNCHANGED <<n_pca, pca, plot_data_pca, link_pca>>
  /\ RestUntouched

\* if n_pca > self._n_pca (line 745)
Test(t) ==
  /\ ThreadAt(t).pc = "test"
  /\ Moves(t, [ThreadAt(t) EXCEPT
                 !.pc = IF NeedsFit(ThreadAt(t).c) THEN "record" ELSE "empty_test"])
  /\ UNCHANGED <<n_pca, pca, plot_data_pca, link_pca>>
  /\ RestUntouched

RecordAhead(t) ==
  /\ ThreadAt(t).pc = "record"
  /\ n_pca' = ThreadAt(t).c + 1
  /\ Moves(t, [ThreadAt(t) EXCEPT !.pc = "fit"])
  /\ UNCHANGED <<pca, plot_data_pca, link_pca>>
  /\ RestUntouched

\* self._n_pca = n_pca (line 746)
Record(t) ==
  /\ ThreadAt(t).pc = "record"
  /\ n_pca' = ThreadAt(t).c
  /\ Moves(t, [ThreadAt(t) EXCEPT !.pc = "fit"])
  /\ UNCHANGED <<pca, plot_data_pca, link_pca>>
  /\ RestUntouched

\* PCA(**pca_kwargs).fit(self.data), the right-hand side of line 747
FitBasis(t) ==
  /\ ThreadAt(t).pc = "fit"
  /\ Moves(t, IF FitError(ThreadAt(t).c) = "ok"
               THEN [ThreadAt(t) EXCEPT !.pc = "store",
                                        !.basis = PcaFit(data, ThreadAt(t).c)]
               ELSE [ThreadAt(t) EXCEPT !.pc = "raised",
                                        !.outcome = FitError(ThreadAt(t).c)])
  /\ UNCHANGED <<n_pca, pca, plot_data_pca, link_pca>>
  /\ RestUntouched

\* self.pca = ..., the assignment of line 747
StoreBasis(t) ==
  /\ ThreadAt(t).pc = "store"
  /\ pca' = ThreadAt(t).basis
  /\ Moves(t, [ThreadAt(t) EXCEPT !.pc = "empty_test"])
  /\ UNCHANGED <<n_pca, plot_data_pca, link_pca>>
  /\ RestUntouched

\* if self.plot_data_pca[n_pca].empty (line 749)
EmptyTest(t) ==
  /\ ThreadAt(t).pc = "empty_test"
  /\ Moves(t, IF PcaFrame(ThreadAt(t).c) = EmptyFrame
               THEN [ThreadAt(t) EXCEPT !.pc = "loop", !.p = 1]
               ELSE [ThreadAt(t) EXCEPT !.pc = "done", !.outcome = "ok"])
  /\ UNCHANGED <<n_pca, pca, plot_data_pca, link_pca>>
  /\ RestUntouched

\* The columns written for n by a call for c that read the basis p.
Positioned(t, c, n, means) ==
  /\ plot_data_pca' =
       [x \in DOMAIN plot_data_pca \cup {c} |->
          IF x = c THEN WithColumn(PcaFrame(c), n, Take(means, labels[n]))
          ELSE plot_data_pca[x]]
  /\ link_pca' =
       [x \in DOMAIN link_pca \cup {c} |->
          IF x = c THEN WithColumn(LinkFrame(c), n, LinkDict(means, n))
          ELSE link_pca[x]]
  /\ Moves(t, IF ThreadAt(t).p = Len(k_range)
               THEN [ThreadAt(t) EXCEPT !.pc = "done", !.outcome = "ok"]
               ELSE [ThreadAt(t) EXCEPT !.p = ThreadAt(t).p + 1])

\* One pass of the loop of lines 750-753, for the next n of k_range: it
\* reads self.pca.components_[n_pca - 1] as it is stored at that moment.
Position(t) ==
  /\ ThreadAt(t).pc = "loop"
  /\ IF PcaStepOk(pca, ThreadAt(t).c, k_range[ThreadAt(t).p])
     THEN Positioned(t, ThreadAt(t).c, k_range[ThreadAt(t).p],
                     Dot(cluster_centers[k_range[ThreadAt(t).p]],
                         Axis(pca.components, ThreadAt(t).c - 1)))
     ELSE /\ Moves(t, [ThreadAt(t) EXCEPT
                         !.pc = "raised",
                         !.outcome = PcaStepError(pca, ThreadAt(t).c,
                                                  k_range[ThreadAt(t).p])])
          /\ UNCHANGED <<plot_data_pca, link_pca>>
  /\ UNCHANGED <<n_pca, pca>>
  /\ RestUntouched

NextConcurrent ==
  \/ \E t \in Threads, c \in ConcurrentCounts : Call(t, c)
  \/ \E t \in Threads : Test(t)
  \/ \E t \in Threads : Record(t)
  \/ \E t \in Threads : FitBasis(t)
  \/ \E t \in Threads : StoreBasis(t)
  \/ \E t \in Threads : EmptyTest(t)
  \/ \E t \in Threads : Position(t)

SpecConcurrent == InitConcurrent /\ [][NextConcurrent]_vars

\* ------------------------------------------- objects with shared tails
\* A position of k + 1 reached from two positions of k, next to a third
\* position of k + 1, takes one observation more than MaxK positions do:
\* SpecTails builds its objects with from_centers from the labels frames
\* over NObs + 1 observations, the first observation labelled 0.
TailObs == 1..(NObs + 1)
TailData ==
  {X \in [TailObs -> Points] : X[1] = <<0, 0>> /\ X[2] = <<MaxVal, 0>>}
TailLabels ==
  {lab \in [Ks -> [TailObs -> 0..(MaxK - 1)]] :
     \A k \in Ks : lab[k][1] = 0 /\ \A j \in TailObs : lab[k][j] < k}

InitTails == New(NoneRange, "None", "kmeans", "unset")

NextTails ==
  \/ \E X \in TailData, lab \in TailLabels :
       from_centers(KSeq, FamilyCenters(X, lab), KSeq, lab, X)
  \/ \E st \in 0..MaxK : plot(NoneRange, FALSE, 1, st)

SpecTails == InitTails /\ [][NextTails]_vars

\* ------------------------------------ requests over every component count
\* pca_kwargs["n_components"] is whatever integer the caller passes: the
\* counts below 1 are requested too, of one sweep fitted or constructed.
AxisCounts == 0..MaxPca

InitAxis == New(Range123, "None", "kmeans", "unset")

NextAxis ==
  \/ \E dat \in {Absent, ExampleData} :
       from_centers(Range123, ExampleCenters, Range123, ExampleLabels, dat)
  \/ fit(SkewData, Estimated(SkewData, ExampleLabels, 1, <<3, 1, 2>>))
  \/ \E c \in AxisCounts : compute_means(TRUE, c)
  \/ \E c \in AxisCounts : plot(NoneRange, TRUE, c, 0)
  \/ \E c \in AxisCounts : bokeh(TRUE, c)

SpecAxis == InitAxis /\ [][NextAxis]_vars

\* ===================================================== the claims
Populating == {"fit", "from_centers", "from_data"}
Rendering == {"plot", "bokeh"}
AllOk == \A i \in DOMAIN hist : hist[i].outcome = "ok"
LargerThanEarlier(i) == \A j \in 1..(i - 1) : hist[i].c > hist[j].c

\* C1: over a sequence of successful PCA-weighted requests made since the
\* object was fitted or constructed, the PCA is fitted at request i exactly
\* when its component count is larger than every earlier one; the first
\* request always fits.
C1_FitExactlyOnLargerCount ==
  AllOk => \A i \in DOMAIN hist : hist[i].fit <=> LargerThanEarlier(i)

\* Requests 3 then 1, both successful: the PCA was fitted at the first only.
C1_Witness ==
  /\ Len(hist) = 2
  /\ hist[1] = [c |-> 3, fit |-> TRUE, outcome |-> "ok"]
  /\ hist[2] = [c |-> 1, fit |-> FALSE, outcome |-> "ok"]

\* C2: after a successful population, for every k of k_range: labels[k] has
\* one entry per observation, each in [0, k), and cluster_centers[k] has k
\* rows.
C2_StoreShape ==
  (populated /\ result.op \in Populating /\ result.outcome = "ok") =>
    \A k \in Range(k_range) :
      /\ k \in DOMAIN labels /\ k \in DOMAIN cluster_centers
      /\ \A n \in Range(k_range) : Len(labels[k]) = Len(labels[n])
      /\ \A j \in DOMAIN labels[k] : labels[k][j] >= 0 /\ labels[k][j] < k
      /\ Len(cluster_centers[k]) = k

IsExample ==
  /\ method = "from_centers"
  /\ labels = ExampleLabels
  /\ cluster_centers = ExampleCenters
  /\ 3 \in DOMAIN plot_data

\* C4, as the code has it: for the object from_centers builds from the
\* documented labels and centers, the plain positions at k = 3 are -1 for
\* observation 0, 0 for observation 1 and 1 for observation 2.
C4_ExamplePositions ==
  IsExample => plot_data[3] = <<RatInt(-1), RatInt(0), RatInt(1)>>

C4_Witness == IsExample /\ result.op = "compute_means" /\ result.outcome = "ok"

\* C4 as stated: observation 1 is at 1 and observation 2 at 0.
C4_AsStated ==
  IsExample => plot_data[3] = <<RatInt(-1), RatInt(1), RatInt(0)>>

\* The k values a renderer call was asked to draw.
DrawnRange == IF result.k_sub = NoneRange THEN k_range ELSE result.k_sub
EdgeCount(k) ==
  SumSeq([r \in DOMAIN chart.edges |->
            IF chart.edges[r].k = k THEN chart.edges[r].count ELSE 0])

\* C6: after a renderer drew, for every pair k, k + 1 of the swept range
\* that it was asked to draw, the counts of the edges from k to k + 1 sum to
\* the number of observations.
C6_EdgeCountsSumToN ==
  (result.op \in Rendering /\ result.outcome = "ok" /\ result.stratify = 0) =>
    \A k \in Range(DrawnRange) :
      (k + 1 \in Range(DrawnRange) /\ {k, k + 1} \subseteq Range(k_range)) =>
        EdgeCount(k) = Len(labels[k])

\* C8: plot with a k_range that is no subset of the swept range raises
\* ValueError and draws nothing.
C8_ForeignRangeRaisesValueError ==
  (result.op = "plot" /\ result.k_sub # NoneRange
     /\ ~(Range(result.k_sub) \subseteq Range(k_range))) =>
    (result.outcome = "ValueError" /\ chart = NoChart)

\* C9: a PCA-weighted request raises ValueError whenever its component count
\* exceeds the number of features, and whenever the object has no data.
C9_PcaRequestRaisesValueError ==
  \A i \in DOMAIN hist :
    (data = Absent \/ hist[i].c > Len(data[1])) => hist[i].outcome = "ValueError"

\* C3: every plain position of observation j at k is the mean over the
\* features of the center its label at k selects.
C3_PlainPositionIsCenterMean ==
  \A k \in DOMAIN plot_data : \A j \in DOMAIN plot_data[k] :
    plot_data[k][j] = RatMean(cluster_centers[k][labels[k][j] + 1])

\* Positions were computed for labels that are no identity assignment and
\* observations end at different positions.
C3_Witness ==
  /\ result.op = "compute_means" /\ result.outcome = "ok"
  /\ MaxK \in DOMAIN plot_data
  /\ \E j \in Obs : labels[MaxK][j] # j - 1
  /\ \E i, j \in Obs : plot_data[MaxK][i] # plot_data[MaxK][j]

KMeansMethods == {"kmeans", "minibatchkmeans"}
\* The mean of each feature over all rows of the data, and its mean.
DataMean == [f \in 1..Len(data[1]) |-> Rat(SumSeq([j \in DOMAIN data |-> data[j][f]]), Len(data))]
TrivialCase(methods) ==
  /\ (result.op = "fit" /\ result.outcome = "ok" /\ method \in methods
        /\ 1 \in Range(k_range)) =>
       (1 \notin result.invoked /\ cluster_centers[1] = <<DataMean>>)
  /\ (populated /\ method \in methods /\ 1 \in DOMAIN plot_data) =>
       \A j \in DOMAIN plot_data[1] : plot_data[1][j] = RatMean(DataMean)

StratifiedDrawn ==
  result.op = "plot" /\ result.outcome = "ok" /\ result.stratify # 0
SameHead(r) ==
  {q \in DOMAIN chart.edges : /\ chart.edges[q].k = chart.edges[r].k
                               /\ chart.edges[q].head = chart.edges[r].head}
SameTail(r) ==
  {q \in DOMAIN chart.edges : /\ chart.edges[q].k = chart.edges[r].k
                               /\ chart.edges[q].tail = chart.edges[r].tail}
StrataSum(Q) ==
  SumSeq([q \in DOMAIN chart.edges |->
            IF q \in Q THEN chart.edges[q].count_strata ELSE 0])
FractionSum(Q) ==
  RatSum([q \in DOMAIN chart.edges |->
            IF q \in Q THEN Rat(chart.edges[q].count_strata, chart.edges[q].count_head)
            ELSE RatInt(0)])
At(k, y) == Cardinality({j \in DOMAIN plot_data[k] : plot_data[k][j] = y})

\* C7: in the stratified rows drawn for a pair (k, k + 1), the stratum
\* counts of the rows sharing a head sum to their head total, which is the
\* number of observations at that head at k, and their fractions of the head
\* total sum to 1; the stratum counts of the rows sharing a tail sum to
\* their tail total.
C7_StrataSumToTotals ==
  StratifiedDrawn =>
    \A r \in DOMAIN chart.edges :
      /\ StrataSum(SameHead(r)) = chart.edges[r].count_head
      /\ chart.edges[r].count_head = At(chart.edges[r].k, chart.edges[r].head)
      /\ FractionSum(SameHead(r)) = RatInt(1)
      /\ StrataSum(SameTail(r)) = chart.edges[r].count_tail

\* A head was split over several strata, one of them with several
\* observations.
C7_Witness ==
  /\ StratifiedDrawn
  /\ \E r \in DOMAIN chart.edges :
       /\ Cardinality({chart.edges[q].stratum : q \in SameHead(r)}) > 1
       /\ chart.edges[r].count_strata > 1

\* C10: from_data with method "mean" leaves, for every k and every label c
\* in [0, k) that has rows, the feature-wise mean of the rows labelled c as
\* cluster_centers[k][c].
C10_CenterIsGroupMean ==
  (result.op = "from_data" /\ result.outcome = "ok" /\ result.how = "mean") =>
    \A k \in Range(k_range) : \A c \in 0..(k - 1) :
      Members(labels[k], c) # {} =>
        /\ c < Len(cluster_centers[k])
        /\ cluster_centers[k][c + 1] =
             [f \in 1..Len(data[1]) |->
                Rat(SumSeq([j \in DOMAIN data |->
                              IF labels[k][j] = c THEN data[j][f] ELSE 0]),
                    Cardinality(Members(labels[k], c)))]

\* The configurations fit is to reject, given the methods it accepts: the
\* backend is none it knows; there is no k_range and the method is not
\* hierarchical; the backend, resolved from None by the method, and the
\* method do not go together; the method is none of those accepted.
Rejecting(methods) ==
  LET b == IF backend # "None" THEN backend
           ELSE IF method = "hierarchical" THEN "scipy" ELSE "sklearn"
  IN  \/ backend \notin {"sklearn", "cuML", "scipy", "None"}
      \/ (k_range = NoneRange /\ method # "hierarchical")
      \/ (b = "cuML" /\ method # "kmeans")
      \/ (b = "scipy" /\ method # "hierarchical")
      \/ (b = "sklearn" /\ method = "hierarchical")
      \/ method \notin methods

\* A call of fit on a configuration to reject raises ValueError, invokes no
\* estimator and leaves labels, cluster_centers and the caches as they were.
RejectedWithoutEffect(methods) ==
  (result'.op = "fit" /\ Rejecting(methods)) =>
    /\ result'.outcome = "ValueError"
    /\ result'.invoked = {}
    /\ UNCHANGED <<labels, cluster_centers, caches>>

\* C11, as the code has it: fit raises ValueError, without invoking an
\* estimator and without changing labels, cluster_centers or the position
\* caches, when the backend is not one of sklearn, cuML, scipy, None; when
\* k_range is None and the method is not hierarchical; when the resolved
\* backend and the method do not go together; and when the method is none of
\* kmeans, gmm, minibatchkmeans, hierarchical, from_centers, from_data.
C11_RejectedFitHasNoEffect ==
  [][RejectedWithoutEffect(Supported \cup ClassMethods)]_vars

\* fit was rejected for a method it does not know.
C11_Witness ==
  /\ result.op = "fit" /\ result.outcome = "ValueError"
  /\ backend \in AllowedBackends /\ k_range # NoneRange
  /\ method \notin Supported \cup ClassMethods
  /\ ~populated /\ labels = EmptyFrame /\ plot_data = EmptyFrame

\* C11 as stated: the same with kmeans, gmm, minibatchkmeans and
\* hierarchical as the only methods that are not rejected.
C11_AsStated == [][RejectedWithoutEffect(Supported)]_vars

\* C12: when the estimator fails at some k of the sweep, no later k is
\* fitted, and afterwards labels and cluster_centers hold every k of k_range
\* or none of them.
C12_SweepAllOrNothing ==
  (result.op = "fit" /\ result.outcome = "ValueError" /\ result.invoked # {}) =>
    /\ \A k \in result.invoked : \A n \in DOMAIN labels : n < k
    /\ DOMAIN labels \in {{}, Range(k_range)}
    /\ DOMAIN cluster_centers \in {{}, Range(k_range)}

\* A step of a renderer or of a position request on a populated object.
RenderStep == populated /\ result'.op \in Rendering \cup {"compute_means"}

\* C13: on a populated object every call of plot (with or without
\* stratification or a k subset), of bokeh and of a position computation
\* leaves k_range, labels and cluster_centers as they were, and with them the
\* data and the configuration; it changes nothing but the position caches,
\* the position-to-label lookups and the PCA fit.
C13_RendersKeepTheSweep ==
  [][RenderStep => UNCHANGED <<populated, config, store>>]_vars

\* A stratified plot of a k subset followed a PCA-weighted request: the
\* caches are filled and the store is the constructed one.
C13_Witness ==
  /\ result.op = "plot" /\ result.outcome = "ok"
  /\ result.stratify # 0 /\ result.k_sub # NoneRange
  /\ Len(hist) > 0 /\ HasPca(pca)
  /\ plot_data # EmptyFrame /\ plot_data_pca # EmptyFrame
  /\ labels = ExampleLabels /\ cluster_centers = ExampleCenters

\* The frame the last renderer call read its positions from.
DrawnFrame ==
  IF result.pca_weighted THEN plot_data_pca[result.pca_component] ELSE plot_data
EdgesFrom(k) == {r \in DOMAIN chart.edges : chart.edges[r].k = k}

\* C14: after a renderer drew from positions of more than two k, the drawn k
\* that have edges to k + 1 are exactly those whose k + 1 does not exceed the
\* maximum of the drawn range, in whatever order the range lists them, and
\* no other k has edges.
C14_EdgesUpToTheMaximum ==
  (result.op \in Rendering /\ result.outcome = "ok"
     /\ Cardinality(DOMAIN DrawnFrame) > 2) =>
    /\ \A k \in Range(DrawnRange) :
         (k + 1 <= MaxOf(Range(DrawnRange))) <=> (EdgesFrom(k) # {})
    /\ \A r \in DOMAIN chart.edges : chart.edges[r].k \in Range(DrawnRange)

\* The last renderer call had positions for every k of the sweep and for
\* every k it was asked to draw, out of a frame of more than two k.
FrameServed ==
  /\ result.op \in Rendering
  /\ result.pca_weighted => result.pca_component \in DOMAIN plot_data_pca
  /\ Range(k_range) \subseteq DOMAIN DrawnFrame
  /\ Range(DrawnRange) \subseteq DOMAIN DrawnFrame
  /\ Cardinality(DOMAIN DrawnFrame) > 2
MarkersAt(k) == {q \in DOMAIN chart.markers : chart.markers[q].k = k}
ObservationsAt(k, y) ==
  Cardinality({j \in DOMAIN DrawnFrame[k] : DrawnFrame[k][j] = y})
OneMarkerPerPosition(k) ==
  /\ Cardinality(MarkersAt(k)) = Cardinality(Range(DrawnFrame[k]))
  /\ \A y \in Range(DrawnFrame[k]) :
       \E q \in MarkersAt(k) :
         chart.markers[q].y = y /\ chart.markers[q].count = ObservationsAt(k, y)
  /\ SumSeq([q \in DOMAIN chart.markers |->
               IF q \in MarkersAt(k) THEN chart.markers[q].count ELSE 0])
       = Len(DrawnFrame[k])

\* C15: a renderer emits, for every k it draws, exactly one marker per
\* distinct position at k, also when there are fewer than k of them, at x = k
\* and y = the position, with the number of observations at the position as
\* its count; the counts of the markers at k sum to the number of
\* observations.
C15_OneMarkerPerPosition ==
  FrameServed => \A k \in Range(DrawnRange) : OneMarkerPerPosition(k)

\* The edges from k to k + 1 that observation j is counted in, and the
\* observations that share both positions with an edge.
EdgesOf(k, j) ==
  {r \in EdgesFrom(k) : /\ chart.edges[r].head = DrawnFrame[k][j]
                         /\ chart.edges[r].tail = DrawnFrame[k + 1][j]}
CountedIn(r) ==
  LET k == chart.edges[r].k
  IN  {j \in DOMAIN DrawnFrame[k] : /\ DrawnFrame[k][j] = chart.edges[r].head
                                    /\ DrawnFrame[k + 1][j] = chart.edges[r].tail}
Unstratified == result.op \in Rendering /\ result.stratify = 0

\* C16: the edges drawn without stratification for a pair (k, k + 1) are
\* keyed by position: every observation is counted in exactly one edge, the
\* one with its position at k as head and its position at k + 1 as tail, so
\* two observations share an edge exactly when they share both positions,
\* whatever their cluster indices; the count of an edge is the number of
\* observations with its two positions.
C16_EdgesKeyedByPosition ==
  Unstratified =>
    \A r \in DOMAIN chart.edges :
      /\ \A j \in DOMAIN DrawnFrame[chart.edges[r].k] :
           Cardinality(EdgesOf(chart.edges[r].k, j)) = 1
      /\ chart.edges[r].count = Cardinality(CountedIn(r))
      /\ chart.edges[r].count > 0

\* An edge drawn by bokeh counts two observations whose cluster indices
\* differ at one end.
C16_Witness ==
  /\ Unstratified /\ result.op = "bokeh" /\ result.outcome = "ok"
  /\ \E r \in DOMAIN chart.edges :
       /\ chart.edges[r].count > 1
       /\ \E i, j \in CountedIn(r) :
            \/ labels[chart.edges[r].k][i] # labels[chart.edges[r].k][j]
            \/ labels[chart.edges[r].k + 1][i] # labels[chart.edges[r].k + 1][j]

\* The band of a head of the last stratified plot: its width is linewidth_dy
\* times the share of the observations that are at the head.
HeadBandWidth(r) ==
  RatMul(LinewidthDy(DrawnFrame, labels[result.stratify]),
         Rat(chart.edges[r].count_head, Len(DrawnFrame[chart.edges[r].k])))
LeftHeight(r) == RatSub(chart.edges[r].upper_left, chart.edges[r].lower_left)
FirstOf(Q) == CHOOSE q \in Q : \A x \in Q : q <= x
LastOf(Q) == CHOOSE q \in Q : \A x \in Q : q >= x
NextIn(Q, q) == FirstOf({x \in Q : x > q})

\* C17: in a stratified plot, the left extents of the parallelograms that
\* leave a head h of a pair (k, k + 1), in the order they are drawn, start at
\* h minus half the band width of the head, each begin where the one before
\* ended, each have the height (stratum count / head total) * band width,
\* and end at h plus half the band width; no two of them overlap.
C17_HeadExtentsTileTheBand ==
  StratifiedDrawn =>
    \A r \in DOMAIN chart.edges :
      LET Q == SameHead(r)
          e == chart.edges
          half == RatDivInt(HeadBandWidth(r), 2)
      IN  /\ e[FirstOf(Q)].lower_left = RatSub(e[r].head, half)
          /\ e[LastOf(Q)].upper_left = RatAdd(e[r].head, half)
          /\ LeftHeight(r) = RatMul(Rat(e[r].count_strata, e[r].count_head),
                                    HeadBandWidth(r))
          /\ r # LastOf(Q) => e[r].upper_left = e[NextIn(Q, r)].lower_left
          /\ \A q \in Q : q > r => ~RatLess(e[q].lower_left, e[r].upper_left)

\* A head with a band of positive width was drawn as several parallelograms
\* of different strata, and another head of the same pair was drawn too.
C17_Witness ==
  /\ StratifiedDrawn
  /\ \E r, q \in DOMAIN chart.edges :
       /\ q \in SameHead(r) /\ q > r
       /\ chart.edges[q].stratum # chart.edges[r].stratum
       /\ RatLess(chart.edges[r].lower_left, chart.edges[r].upper_left)
       /\ RatLess(chart.edges[r].upper_left, chart.edges[q].upper_left)
       /\ \E x \in DOMAIN chart.edges :
            chart.edges[x].k = chart.edges[r].k /\ x \notin SameHead(r)

\* The component counts that have positions.
CachedCounts == {c \in DOMAIN plot_data_pca : plot_data_pca[c] # EmptyFrame}

\* C18: a renderer call or position request, whatever its mode, leaves the
\* plain positions as they are once there are any, fills them only when it
\* is not PCA-weighted, and leaves the positions of every component count
\* that has positions as they are, also when it fits the PCA anew for a
\* higher component count.
C18_PositionsComputedOnce ==
  [][RenderStep =>
       /\ plot_data # EmptyFrame => plot_data' = plot_data
       /\ plot_data' # plot_data => ~result'.pca_weighted
       /\ \A c \in CachedCounts :
            c \in DOMAIN plot_data_pca' /\ plot_data_pca'[c] = plot_data_pca[c]]_vars

\* After the plain positions and those of component count 1 were computed, a
\* request with a higher component count has fitted the PCA anew; all three
\* frames hold positions.
C18_Witness ==
  /\ Len(hist) = 2 /\ AllOk
  /\ hist[1].c < hist[2].c /\ hist[2].fit
  /\ CachedCounts = {hist[1].c, hist[2].c}
  /\ plot_data # EmptyFrame
  /\ result.op \in Rendering \cup {"compute_means"} /\ result.pca_weighted

\* A successful call of fit on an object that holds a sweep.
RefitStep == populated /\ result'.op = "fit" /\ result'.outcome = "ok"
\* The first PCA-weighted request after the object was fitted or built, with
\* a component count its data allows.
FirstPcaStep ==
  /\ RenderStep /\ result'.pca_weighted /\ result'.pca_component >= 1
  /\ n_pca = 0 /\ hist = <<>>
  /\ data # Absent /\ PcaFitOk(data, result'.pca_component)
\* A request that fills the plain positions.
PlainFillStep == RenderStep /\ ~result'.pca_weighted /\ plot_data = EmptyFrame

CountAhead == n_pca > (IF HasPca(pca) THEN pca.n_components ELSE 0)
\* A call sits between recording its count and storing its basis.
Fitting(t) == ThreadAt(t).pc \in {"fit", "store"}
\* A call failed where it reads its axis from the stored basis.
FailedOnAxis(t) ==
  ThreadAt(t).pc = "raised" /\ ThreadAt(t).outcome \in {"IndexError", "AttributeError"}

\* C20: the PCA fit cache is updated without synchronization, and the
\* interleaving of two requests is what breaks it: as long as no two
\* requests have been in flight together, the recorded count is ahead of the
\* stored basis only while the one request is fitting and no request fails
\* on reading its axis; with two requests in flight the recorded count gets
\* ahead of the stored basis and a request fails on indexing it, as in the
\* state C20_Witness describes.
C20_OnlyInterleavingBreaksTheCache ==
  ~calls.overlapped =>
    /\ CountAhead => \E t \in Threads : Fitting(t)
    /\ \A t \in Threads : ~FailedOnAxis(t)

\* Two requests were in flight together; the recorded count exceeds the
\* number of components of the stored basis, and a request for a count up
\* to the recorded one failed on indexing the basis.
C20_Witness ==
  /\ calls.overlapped /\ CountAhead /\ HasPca(pca)
  /\ \E t \in Threads :
       /\ FailedOnAxis(t) /\ ThreadAt(t).outcome = "IndexError"
       /\ ThreadAt(t).c <= n_pca /\ ThreadAt(t).c > pca.n_components

\* The fit of request i of the history cannot succeed: there is no data, or
\* the data does not allow its component count.
FitFails(i) == data = Absent \/ ~PcaFitOk(data, hist[i].c)

\* C21: a PCA-weighted request that fails leaves the recorded count and the
\* stored basis as they were: in every state the stored basis has at least
\* as many components as the recorded count, and a request with a count the
\* data allows that follows a failed one fits the PCA, as it would have
\* without the failed one.
C21_FailedRequestLeavesCache ==
  /\ ~CountAhead
  /\ (Len(hist) = 2 /\ FitFails(1) /\ ~FitFails(2)) => hist[2].fit

\* The last operation was a PCA-weighted position computation, on its own
\* or at the start of a render, that completed without error.
PcaCompleted ==
  /\ populated
  /\ result.op \in Rendering \cup {"compute_means"}
  /\ result.pca_weighted
  /\ result.outcome = "ok"

\* The positions of sweep n along the axis at index c - 1, counted from the
\* front of the stored basis.
AlongAxis(c, n) == Take(Dot(cluster_centers[n], pca.components[c]), labels[n])

\* C22: a PCA-weighted position computation for component count c that
\* completes without error has 1 <= c <= the number of components of the
\* stored basis, and its positions are the ones along the axis at index
\* c - 1; a count below 1 never yields positions of another axis.
C22_PositionsFromTheAxisAsked ==
  PcaCompleted =>
    /\ result.pca_component >= 1
    /\ result.pca_component <= Len(pca.components)
    /\ \A n \in DOMAIN PcaFrame(result.pca_component) :
         PcaFrame(result.pca_component)[n] = AlongAxis(result.pca_component, n)

\* Two renders have the same outcome: both failed, or both drew the same
\* set of edges.
SameOutcome(p, b) ==
  \/ p.outcome # "ok" /\ b.outcome # "ok"
  \/ p.outcome = "ok" /\ b.outcome = "ok" /\ Range(p.edges) = Range(b.edges)

\* plot and bokeh, called on the object as it is with the same position
\* mode, the full swept range and no stratification, after the position
\* request both start with left r behind.
RenderersAgree(r, pw, c) ==
  SameOutcome(Draw(r, k_range, pw, c, 0), DrawBokeh(r, pw, c))

\* C23: for the same populated object, the same position mode and the full
\* swept range without stratification, plot and bokeh have the same
\* outcome: both fail, or both draw the same set of transition edges
\* (k, head position, tail position, count), whatever the sweep.
C23_RenderersAgree ==
  populated =>
    \A rq \in RenderRequests : RenderersAgree(ComputeMeans(rq[1], rq[2]), rq[1], rq[2])

TailBandWidth(r) ==
  RatMul(LinewidthDy(DrawnFrame, labels[result.stratify]),
         Rat(chart.edges[r].count_tail, Len(DrawnFrame[chart.edges[r].k])))

\* The right extents of parallelograms r and q share more than a point.
RightOverlap(r, q) ==
  /\ RatLess(chart.edges[r].lower_right, chart.edges[q].upper_right)
  /\ RatLess(chart.edges[q].lower_right, chart.edges[r].upper_right)

\* C24: in a stratified plot, for every tail t of a pair (k, k + 1), the
\* right extents of the parallelograms that end at t, whatever head they
\* leave, lie within the band from t minus half the band width of the tail
\* to t plus half of it, and no two of them overlap.
C24_TailExtentsWithinTheBand ==
  StratifiedDrawn =>
    \A r \in DOMAIN chart.edges :
      /\ ~RatLess(chart.edges[r].lower_right,
                  RatSub(chart.edges[r].tail, RatDivInt(TailBandWidth(r), 2)))
      /\ ~RatLess(RatAdd(chart.edges[r].tail, RatDivInt(TailBandWidth(r), 2)),
                  chart.edges[r].upper_right)
      /\ \A q \in SameTail(r) : q # r => ~RightOverlap(r, q)

\* A step that is a call of fit on an object constructed with the
\* hierarchical method.
HierarchicalFitStep == method = "hierarchical" /\ result'.op = "fit"

\* C25: fit with the hierarchical method is repeatable: a call leaves the
\* stored configuration (kwargs, the linkage method in it) as constructed,
\* and a call with the data the object was fitted on before leaves the
\* labels and the centers as the call before produced them.
C25_HierarchicalFitRepeatable ==
  [][HierarchicalFitStep =>
       /\ kwargs' = kwargs
       /\ (populated /\ data' = data) =>
            (labels' = labels /\ cluster_centers' = cluster_centers)]_vars

====
